---- MODULE Spec2Model ----
(***************************************************************************)
(* Model of data_downloader.py: the dataset download pipeline.             *)
(*                                                                         *)
(* Strings are sequences of one-character strings so that split('/'),      *)
(* os.path.join and os.path.dirname are computed, not assumed.  The file   *)
(* system is the set of existing directories, the set of exported files    *)
(* and the credential file at the expected location.  Every call that can  *)
(* raise (os.makedirs, Path.mkdir, shutil.copy, os.chmod, authenticate,    *)
(* dataset_download_files, load_dataset, to_csv) either succeeds or        *)
(* raises; the program counter pc follows Python's control flow, the       *)
(* try/except blocks included.  A behaviour is a series of invocations of  *)
(* the script over one file system.                                        *)
(***************************************************************************)
EXTENDS Integers, Sequences, FiniteSets, TLC

\* Number of invocations of the script in one behaviour.
MaxRuns == 2

(***************************************************************************)
(* String literals of the source.                                          *)
(***************************************************************************)
SEP == "/"

DATASETS_DIR == <<"d","a","t","a","s","e","t","s">>
KAGGLE == <<"k","a","g","g","l","e">>
HUGGINGFACE == <<"h","u","g","g","i","n","g","f","a","c","e">>
HOME == <<"~">>
DOT_KAGGLE == <<".","k","a","g","g","l","e">>
KAGGLE_JSON == <<"k","a","g","g","l","e",".","j","s","o","n">>
CSV_EXT == <<".","c","s","v">>

dataset_urls ==
  << <<"f","e","r","d","i","a","n","s","a","k","t","i","/","g","a","m","b","l","i","n","g","-","c","o","m","m","e","n","t","s","-","f","r","o","m","-","y","o","u","t","u","b","e","-","p","l","a","t","f","o","r","m">>,
     <<"y","a","e","m","i","c","o","/","j","u","d","i","o","n","l","i","n","e">>,
     <<"y","a","e","m","i","c","o","/","d","e","t","e","k","s","i","-","j","u","d","i","-","o","n","l","i","n","e">> >>

dataset_ids ==
  << <<"i","n","d","i","r","a","p","r","a","v","i","a","n","t","i","/","o","n","l","i","n","e","_","g","a","m","b","l","i","n","g","_","y","t","_","c","o","m","m","e","n","t","s">>,
     <<"K","a","g","C","h","i","/","i","n","d","o","n","e","s","i","a","n","-","g","a","m","b","l","i","n","g","-","w","o","r","d","s">> >>

\* Partition names of the structured datasets the host can return, in the
\* order the DatasetDict lists them.
TRAIN == <<"t","r","a","i","n">>
TEST == <<"t","e","s","t">>
LoadResults == { <<TRAIN>>, <<TRAIN, TEST>> }

(***************************************************************************)
(* Pure string and path functions.                                         *)
(***************************************************************************)
RECURSIVE SplitFrom(_, _, _)
\* str.split(sep) continued: cur is the segment read so far.
SplitFrom(s, sep, cur) ==
  IF s = <<>> THEN <<cur>>
  ELSE IF Head(s) = sep THEN <<cur>> \o SplitFrom(Tail(s), sep, <<>>)
  ELSE SplitFrom(Tail(s), sep, Append(cur, Head(s)))

\* str.split(sep): every separator ends a segment, empty segments kept.
Split(s, sep) == SplitFrom(s, sep, <<>>)

\* os.path.join(a, b) for a relative b.
PathJoin(a, b) == a \o <<SEP>> \o b

\* os.path.dirname(p): everything before the last separator.
Dirname(p) ==
  LET idx == { i \in 1..Len(p) : p[i] = SEP }
  IN  IF idx = {} THEN <<>>
      ELSE SubSeq(p, 1, (CHOOSE i \in idx : \A j \in idx : j <= i) - 1)

\* The directories os.makedirs(p) / Path(p).mkdir(parents=True) leaves
\* existing: p and every ancestor of p.
WithParents(p) ==
  {p} \cup { SubSeq(p, 1, i - 1) : i \in { j \in 2..Len(p) : p[j] = SEP } }

\* Line 22.
kaggle_path == PathJoin(PathJoin(HOME, DOT_KAGGLE), KAGGLE_JSON)

\* Line 54: the destination folder of a host-A identifier split into parts.
KaggleSubdir(parts) == PathJoin(PathJoin(DATASETS_DIR, KAGGLE), parts[2])

\* Lines 80-81: the destination folder of a host-B identifier.
HfSubdir(id) ==
  LET parts == Split(id, SEP)
  IN  PathJoin(PathJoin(DATASETS_DIR, HUGGINGFACE), parts[Len(parts)])

\* Line 92.
OutputFile(subdir, split) == PathJoin(subdir, split \o CSV_EXT)

(***************************************************************************)
(* Files.                                                                  *)
(***************************************************************************)
NoFile == [content |-> "none", mode |-> 0]

\* preCred before line 23 has run.
Unset == [content |-> "unset", mode |-> 0]

\* 0o600, the mode line 32 sets.
OwnerOnly == 384

\* Permission bits a credential file has before the program touches it
\* (0o644, a file created under the usual umask).
GivenModes == {420}

\* The bundled fallback file, and a file the user placed at the expected
\* location beforehand.
FallbackFiles == { [content |-> "fallback", mode |-> m] : m \in GivenModes }
UserFiles == { [content |-> "user", mode |-> m] : m \in GivenModes }

\* What an interrupted shutil.copy can leave at the destination: nothing, or
\* a file with part of the bytes and the mode it was created with.
CopyLeftovers == {NoFile} \cup { [content |-> "partial", mode |-> m] : m \in GivenModes }

(***************************************************************************)
(* State.                                                                  *)
(***************************************************************************)
VARIABLES
  pc,             \* position of the interpreter
  run,            \* number of invocations started
  exc,            \* the uncaught exception that ended the run, "" if none
  excAt,          \* the position that raised it
  dirs,           \* existing directories (paths)
  files,          \* existing exported files (paths)
  cred,           \* the file at kaggle_path, NoFile if absent
  local,          \* the bundled kaggle.json, NoFile if absent
  ki,             \* download_kaggle_datasets: index of the current dataset_url
  parts,          \* dataset_url.split('/')
  hi,             \* download_huggingface_datasets: index of the current dataset_id
  dataset,        \* the loaded DatasetDict: its split names in order
  si,             \* number of splits of dataset already exported
  \* What the run has done so far (calls made and lines printed).
  cred0,          \* the file at kaggle_path before the first invocation
  preCred,        \* Unset, or the file found at kaggle_path by line 23
  copyCount,      \* shutil.copy calls
  provisioned,    \* some run completed makedirs, copy and chmod
  calls,          \* entries of setup / host-A batch / host-B batch, in order
  kAttempted,     \* "Downloading Kaggle dataset" lines: the identifiers
  kFailed,        \* host-A identifiers one of whose steps raised
  kDiag,          \* host-A identifiers named in an "Error downloading" line
  kSteps,         \* calls of the current host-A iteration, <<call, outcome>>
  authCalls,      \* kaggle.api.authenticate calls
  dlCalls,        \* dataset_download_files calls
  hAttempted,     \* "Downloading Huggingface dataset" lines: the identifiers
  hFailed,        \* host-B identifiers whose load or export raised
  hDiag,          \* host-B identifiers named in an "Error downloading" line
  hBefore,        \* files in the current host-B destination folder at line 86
  loadCalls       \* load_dataset calls

fsVars == <<dirs, files, cred, local, cred0>>
kVars == <<ki, parts>>
hVars == <<hi, dataset, si>>
credHist == <<preCred, copyCount, provisioned>>
kHist == <<kAttempted, kFailed, kDiag, kSteps, authCalls, dlCalls>>
hHist == <<hAttempted, hFailed, hDiag, hBefore, loadCalls>>
vars == <<pc, run, exc, excAt, fsVars, kVars, hVars, credHist, calls, kHist, hHist>>

Init ==
  /\ pc = "idle" /\ run = 0 /\ exc = "" /\ excAt = ""
  /\ dirs = {} /\ files = {}
  /\ cred \in {NoFile} \cup UserFiles
  /\ local \in {NoFile} \cup FallbackFiles
  /\ cred0 = cred
  /\ ki = 0 /\ parts = <<>>
  /\ hi = 0 /\ dataset = <<>> /\ si = 0
  /\ preCred = Unset /\ copyCount = 0 /\ provisioned = FALSE
  /\ calls = <<>>
  /\ kAttempted = <<>> /\ kFailed = {} /\ kDiag = {} /\ kSteps = <<>>
  /\ authCalls = 0 /\ dlCalls = 0
  /\ hAttempted = <<>> /\ hFailed = {} /\ hDiag = {} /\ hBefore = {}
  /\ loadCalls = 0

\* An exception no handler catches: the interpreter prints the traceback
\* and exits with a non-zero status.
Uncaught(e) == pc' = "crashed" /\ exc' = e /\ excAt' = pc

\* os.makedirs(p, exist_ok=True) and Path(p).mkdir(parents=True,
\* exist_ok=True) when they return.
Makedirs(p) == dirs' = dirs \cup WithParents(p)

(***************************************************************************)
(* The script.                                                             *)
(***************************************************************************)
\* `python data_downloader.py`: a fresh interpreter.
StartRun ==
  /\ pc \in {"idle", "done", "crashed"}
  /\ run < MaxRuns
  /\ run' = run + 1
  /\ pc' = "import" /\ exc' = "" /\ excAt' = ""
  /\ ki' = 0 /\ parts' = <<>>
  /\ hi' = 0 /\ dataset' = <<>> /\ si' = 0
  /\ preCred' = Unset /\ copyCount' = 0
  /\ calls' = <<>>
  /\ kAttempted' = <<>> /\ kFailed' = {} /\ kDiag' = {} /\ kSteps' = <<>>
  /\ authCalls' = 0 /\ dlCalls' = 0
  /\ hAttempted' = <<>> /\ hFailed' = {} /\ hDiag' = {} /\ hBefore' = {}
  /\ loadCalls' = 0
  /\ UNCHANGED <<fsVars, provisioned>>

\* Lines 17-18, run at import: if not os.path.exists: os.makedirs.
ImportMakedirs ==
  /\ pc = "import"
  /\ IF DATASETS_DIR \in dirs
     THEN pc' = "main_104" /\ UNCHANGED <<dirs, exc, excAt>>
     ELSE \/ Makedirs(DATASETS_DIR) /\ pc' = "main_104" /\ UNCHANGED <<exc, excAt>>
          \/ Uncaught("OSError") /\ UNCHANGED dirs
  /\ UNCHANGED <<run, files, cred, local, cred0, kVars, hVars, credHist, calls, kHist, hHist>>

\* Line 104.
MainMakedirsKaggle ==
  /\ pc = "main_104"
  /\ \/ Makedirs(PathJoin(DATASETS_DIR, KAGGLE)) /\ pc' = "main_105"
        /\ UNCHANGED <<exc, excAt>>
     \/ PathJoin(DATASETS_DIR, KAGGLE) \notin dirs
        /\ Uncaught("OSError") /\ UNCHANGED dirs
  /\ UNCHANGED <<run, files, cred, local, cred0, kVars, hVars, credHist, calls, kHist, hHist>>

\* Line 105, then the call of line 108 and of line 40.
MainMakedirsHf ==
  /\ pc = "main_105"
  /\ \/ Makedirs(PathJoin(DATASETS_DIR, HUGGINGFACE)) /\ pc' = "setup_23"
        /\ calls' = Append(calls, "setup")
        /\ UNCHANGED <<exc, excAt>>
     \/ PathJoin(DATASETS_DIR, HUGGINGFACE) \notin dirs
        /\ Uncaught("OSError") /\ UNCHANGED <<dirs, calls>>
  /\ UNCHANGED <<run, files, cred, local, cred0, kVars, hVars, credHist, kHist, hHist>>

\* SetupCheck with the missing file only reported: line 35 does not raise.
SetupCheck_WarnOnly ==
  /\ pc = "setup_23"
  /\ preCred' = cred
  /\ IF cred # NoFile \/ local = NoFile
     THEN pc' = "kaggle_48" /\ calls' = Append(calls, "kaggle")
     ELSE pc' = "setup_28" /\ UNCHANGED calls
  /\ UNCHANGED <<run, exc, excAt, fsVars, kVars, hVars, copyCount, provisioned,
                 kHist, hHist>>

\* SetupCheck without the existence check of line 23.
SetupCheck_AlwaysCopy ==
  /\ pc = "setup_23"
  /\ preCred' = cred
  /\ IF local # NoFile
     THEN pc' = "setup_28" /\ UNCHANGED <<calls, exc, excAt>>
     ELSE Uncaught("FileNotFoundError") /\ UNCHANGED calls
  /\ UNCHANGED <<run, fsVars, kVars, hVars, copyCount, provisioned, kHist, hHist>>

\* Lines 22-26 and 35 of setup_kaggle_credentials: the two existence checks.
SetupCheck ==
  /\ pc = "setup_23"
  /\ preCred' = cred
  /\ IF cred # NoFile
     THEN pc' = "kaggle_48" /\ calls' = Append(calls, "kaggle")
          /\ UNCHANGED <<exc, excAt>>
     ELSE IF local # NoFile
     THEN pc' = "setup_28" /\ UNCHANGED <<calls, exc, excAt>>
     ELSE Uncaught("FileNotFoundError") /\ UNCHANGED calls
  /\ UNCHANGED <<run, fsVars, kVars, hVars, copyCount, provisioned, kHist, hHist>>

\* Line 28: os.makedirs(os.path.dirname(kaggle_path), exist_ok=True).
SetupMakedirs ==
  /\ pc = "setup_28"
  /\ \/ Makedirs(Dirname(kaggle_path)) /\ pc' = "setup_30"
        /\ UNCHANGED <<exc, excAt>>
     \/ Dirname(kaggle_path) \notin dirs
        /\ Uncaught("OSError") /\ UNCHANGED dirs
  /\ UNCHANGED <<run, files, cred, local, cred0, kVars, hVars, credHist, calls, kHist, hHist>>

\* Line 30: shutil.copy(local_path, kaggle_path) copies the bytes, then the
\* permission bits.
SetupCopy ==
  /\ pc = "setup_30"
  /\ copyCount' = copyCount + 1
  /\ \/ cred' = local /\ pc' = "setup_32" /\ UNCHANGED <<exc, excAt>>
     \/ cred' \in CopyLeftovers /\ Uncaught("OSError")
  /\ UNCHANGED <<run, dirs, files, local, cred0, kVars, hVars, preCred, provisioned, calls,
                 kHist, hHist>>

\* SetupChmod with the chmod of line 32 left out.
SetupChmod_Skipped ==
  /\ pc = "setup_32"
  /\ provisioned' = TRUE
  /\ pc' = "kaggle_48" /\ calls' = Append(calls, "kaggle")
  /\ UNCHANGED <<run, exc, excAt, fsVars, kVars, hVars, preCred, copyCount, kHist, hHist>>

\* Lines 32-33: os.chmod(kaggle_path, 0o600), then the return to line 42.
SetupChmod ==
  /\ pc = "setup_32"
  /\ \/ cred' = [cred EXCEPT !.mode = OwnerOnly]
        /\ provisioned' = TRUE
        /\ pc' = "kaggle_48" /\ calls' = Append(calls, "kaggle")
        /\ UNCHANGED <<exc, excAt>>
     \/ Uncaught("OSError") /\ UNCHANGED <<cred, provisioned, calls>>
  /\ UNCHANGED <<run, dirs, files, local, cred0, kVars, hVars, preCred, copyCount, kHist, hHist>>

\* A step inside the try of lines 49-65 raised: control goes to line 67.
KRaise ==
  /\ pc' = "kaggle_67"
  /\ kFailed' = kFailed \cup {dataset_urls[ki]}

\* KaggleNext with the return inside the loop body: the batch ends after
\* its first item.
KaggleNext_ReturnInLoop ==
  /\ pc = "kaggle_48"
  /\ IF ki < 1
     THEN /\ ki' = ki + 1
          /\ kAttempted' = Append(kAttempted, dataset_urls[ki + 1])
          /\ kSteps' = <<>>
          /\ parts' = Split(dataset_urls[ki + 1], SEP)
          /\ pc' = "kaggle_55"
          /\ UNCHANGED calls
     ELSE /\ pc' = "hf_78" /\ calls' = Append(calls, "huggingface")
          /\ UNCHANGED <<ki, parts, kAttempted, kSteps>>
  /\ UNCHANGED <<run, exc, excAt, fsVars, hVars, credHist, kFailed, kDiag, authCalls,
                 dlCalls, hHist>>

\* Lines 48-51: the next dataset_url, its "Downloading" line and its split;
\* after the last one, the return to main and the call of line 109.
KaggleNext ==
  /\ pc = "kaggle_48"
  /\ IF ki < Len(dataset_urls)
     THEN /\ ki' = ki + 1
          /\ kAttempted' = Append(kAttempted, dataset_urls[ki + 1])
          /\ kSteps' = <<>>
          /\ parts' = Split(dataset_urls[ki + 1], SEP)
          /\ IF Len(Split(dataset_urls[ki + 1], SEP)) = 2
             THEN pc' = "kaggle_55" /\ UNCHANGED kFailed
             ELSE pc' = "kaggle_67"
                  /\ kFailed' = kFailed \cup {dataset_urls[ki + 1]}
          /\ UNCHANGED calls
     ELSE /\ pc' = "hf_78" /\ calls' = Append(calls, "huggingface")
          /\ UNCHANGED <<ki, parts, kAttempted, kSteps, kFailed>>
  /\ UNCHANGED <<run, exc, excAt, fsVars, hVars, credHist, kDiag, authCalls, dlCalls, hHist>>

\* KaggleMkdir with its own error swallowed: the item goes on to
\* authenticate without its folder.
KaggleMkdir_ErrorIgnored ==
  /\ pc = "kaggle_55"
  /\ pc' = "kaggle_58"
  /\ \/ Makedirs(KaggleSubdir(parts))
        /\ kSteps' = Append(kSteps, <<"mkdir", "ok">>)
     \/ KaggleSubdir(parts) \notin dirs
        /\ kSteps' = Append(kSteps, <<"mkdir", "raised">>)
        /\ UNCHANGED dirs
  /\ UNCHANGED <<run, exc, excAt, files, cred, local, cred0, kVars, hVars, credHist, calls,
                 kAttempted, kFailed, kDiag, authCalls, dlCalls, hHist>>

\* Lines 54-55: Path(dataset_subdir).mkdir(parents=True, exist_ok=True).
KaggleMkdir ==
  /\ pc = "kaggle_55"
  /\ \/ Makedirs(KaggleSubdir(parts)) /\ pc' = "kaggle_58"
        /\ kSteps' = Append(kSteps, <<"mkdir", "ok">>)
        /\ UNCHANGED kFailed
     \/ KaggleSubdir(parts) \notin dirs
        /\ KRaise /\ kSteps' = Append(kSteps, <<"mkdir", "raised">>)
        /\ UNCHANGED dirs
  /\ UNCHANGED <<run, exc, excAt, files, cred, local, cred0, kVars, hVars, credHist, calls,
                 kAttempted, kDiag, authCalls, dlCalls, hHist>>

\* KaggleAuthenticate hoisted: only the first item of a run authenticates.
KaggleAuthenticate_FirstItemOnly ==
  /\ pc = "kaggle_58"
  /\ authCalls' = IF authCalls = 0 THEN 1 ELSE authCalls
  /\ \/ pc' = "kaggle_59" /\ kSteps' = Append(kSteps, <<"authenticate", "ok">>)
        /\ UNCHANGED kFailed
     \/ authCalls = 0
        /\ KRaise /\ kSteps' = Append(kSteps, <<"authenticate", "raised">>)
  /\ UNCHANGED <<run, exc, excAt, fsVars, kVars, hVars, credHist, calls,
                 kAttempted, kDiag, dlCalls, hHist>>

\* Line 58: kaggle.api.authenticate().
KaggleAuthenticate ==
  /\ pc = "kaggle_58"
  /\ authCalls' = authCalls + 1
  /\ \/ pc' = "kaggle_59" /\ kSteps' = Append(kSteps, <<"authenticate", "ok">>)
        /\ UNCHANGED kFailed
     \/ KRaise /\ kSteps' = Append(kSteps, <<"authenticate", "raised">>)
  /\ UNCHANGED <<run, exc, excAt, fsVars, kVars, hVars, credHist, calls,
                 kAttempted, kDiag, dlCalls, hHist>>

\* Lines 59-65: kaggle.api.dataset_download_files(dataset_url,
\* path=dataset_subdir, unzip=True) and the "Successfully downloaded" line.
KaggleDownload ==
  /\ pc = "kaggle_59"
  /\ dlCalls' = dlCalls + 1
  /\ \/ pc' = "kaggle_48" /\ kSteps' = Append(kSteps, <<"download", "ok">>)
        /\ UNCHANGED kFailed
     \/ KRaise /\ kSteps' = Append(kSteps, <<"download", "raised">>)
  /\ UNCHANGED <<run, exc, excAt, fsVars, kVars, hVars, credHist, calls,
                 kAttempted, kDiag, authCalls, hHist>>

\* KaggleExcept re-raising after its diagnostic.
KaggleExcept_Reraise ==
  /\ pc = "kaggle_67"
  /\ kDiag' = kDiag \cup {dataset_urls[ki]}
  /\ Uncaught("Exception")
  /\ UNCHANGED <<run, fsVars, kVars, hVars, credHist, calls,
                 kAttempted, kFailed, kSteps, authCalls, dlCalls, hHist>>

\* Lines 67-68: except Exception prints "Error downloading {dataset_url}".
KaggleExcept ==
  /\ pc = "kaggle_67"
  /\ kDiag' = kDiag \cup {dataset_urls[ki]}
  /\ pc' = "kaggle_48"
  /\ UNCHANGED <<run, exc, excAt, fsVars, kVars, hVars, credHist, calls,
                 kAttempted, kFailed, kSteps, authCalls, dlCalls, hHist>>

\* The exported files directly inside a folder.
FilesIn(subdir) == { f \in files : Dirname(f) = subdir }

\* Lines 78-81: the next dataset_id and its "Downloading" line; after the
\* last one, the return to line 111.
HfNext ==
  /\ pc = "hf_78"
  /\ IF hi < Len(dataset_ids)
     THEN /\ hi' = hi + 1
          /\ hAttempted' = Append(hAttempted, dataset_ids[hi + 1])
          /\ pc' = "hf_83"
     ELSE /\ pc' = "main_111"
          /\ UNCHANGED <<hi, hAttempted>>
  /\ dataset' = <<>> /\ si' = 0
  /\ UNCHANGED <<run, exc, excAt, fsVars, kVars, credHist, calls, kHist,
                 hFailed, hDiag, hBefore, loadCalls>>

\* Lines 83-84, outside the try: if not os.path.exists: os.makedirs.
HfMakedirs ==
  /\ pc = "hf_83"
  /\ IF HfSubdir(dataset_ids[hi]) \in dirs
     THEN pc' = "hf_88" /\ UNCHANGED <<dirs, exc, excAt>>
     ELSE \/ Makedirs(HfSubdir(dataset_ids[hi])) /\ pc' = "hf_88"
             /\ UNCHANGED <<exc, excAt>>
          \/ Uncaught("OSError") /\ UNCHANGED dirs
  /\ hBefore' = FilesIn(HfSubdir(dataset_ids[hi]))
  /\ UNCHANGED <<run, files, cred, local, cred0, kVars, hVars, credHist, calls, kHist,
                 hAttempted, hFailed, hDiag, loadCalls>>

\* Line 88: dataset = load_dataset(dataset_id).
HfLoad ==
  /\ pc = "hf_88"
  /\ loadCalls' = loadCalls + 1
  /\ \/ dataset' \in LoadResults /\ pc' = "hf_91" /\ UNCHANGED hFailed
     \/ pc' = "hf_96" /\ hFailed' = hFailed \cup {dataset_ids[hi]}
        /\ UNCHANGED dataset
  /\ UNCHANGED <<run, exc, excAt, fsVars, kVars, hi, si, credHist, calls, kHist,
                 hAttempted, hDiag, hBefore>>

\* HfExport with output_file computed once, from the first split.
HfExport_FirstSplitName ==
  /\ pc = "hf_91"
  /\ IF si < Len(dataset)
     THEN \/ /\ files' = files \cup
                  {OutputFile(HfSubdir(dataset_ids[hi]), dataset[1])}
             /\ si' = si + 1 /\ pc' = "hf_91"
             /\ UNCHANGED hFailed
          \/ /\ files' \in {files, files \cup
                  {OutputFile(HfSubdir(dataset_ids[hi]), dataset[1])}}
             /\ pc' = "hf_96" /\ hFailed' = hFailed \cup {dataset_ids[hi]}
             /\ UNCHANGED si
     ELSE pc' = "hf_78" /\ UNCHANGED <<files, si, hFailed>>
  /\ UNCHANGED <<run, exc, excAt, dirs, cred, local, cred0, kVars, hi, dataset, credHist,
                 calls, kHist, hAttempted, hDiag, hBefore, loadCalls>>

\* Lines 91-94: the next split is written to "<split>.csv"; a to_csv that
\* raises may already have created its file.  After the last split, line 78.
HfExport ==
  /\ pc = "hf_91"
  /\ IF si < Len(dataset)
     THEN \/ /\ files' = files \cup
                  {OutputFile(HfSubdir(dataset_ids[hi]), dataset[si + 1])}
             /\ si' = si + 1 /\ pc' = "hf_91"
             /\ UNCHANGED hFailed
          \/ /\ files' \in {files, files \cup
                  {OutputFile(HfSubdir(dataset_ids[hi]), dataset[si + 1])}}
             /\ pc' = "hf_96" /\ hFailed' = hFailed \cup {dataset_ids[hi]}
             /\ UNCHANGED si
     ELSE pc' = "hf_78" /\ UNCHANGED <<files, si, hFailed>>
  /\ UNCHANGED <<run, exc, excAt, dirs, cred, local, cred0, kVars, hi, dataset, credHist,
                 calls, kHist, hAttempted, hDiag, hBefore, loadCalls>>

\* Lines 96-97: except Exception prints "Error downloading {dataset_id}".
HfExcept ==
  /\ pc = "hf_96"
  /\ hDiag' = hDiag \cup {dataset_ids[hi]}
  /\ pc' = "hf_78"
  /\ UNCHANGED <<run, exc, excAt, fsVars, kVars, hVars, credHist, calls, kHist,
                 hAttempted, hFailed, hBefore, loadCalls>>

\* Line 111: the completion line; the interpreter exits with status 0.
MainDone ==
  /\ pc = "main_111"
  /\ pc' = "done"
  /\ UNCHANGED <<run, exc, excAt, fsVars, kVars, hVars, credHist, calls, kHist, hHist>>

Next ==
  \/ StartRun
  \/ ImportMakedirs \/ MainMakedirsKaggle \/ MainMakedirsHf
  \/ SetupCheck \/ SetupMakedirs \/ SetupCopy \/ SetupChmod
  \/ KaggleNext \/ KaggleMkdir \/ KaggleAuthenticate \/ KaggleDownload \/ KaggleExcept
  \/ HfNext \/ HfMakedirs \/ HfLoad \/ HfExport \/ HfExcept
  \/ MainDone

Spec == Init /\ [][Next]_vars

(***************************************************************************)
(* Properties.                                                             *)
(***************************************************************************)
Finished == pc \in {"done", "crashed"}

KagglePositions == {"kaggle_48", "kaggle_55", "kaggle_58", "kaggle_59", "kaggle_67"}
HfPositions == {"hf_78", "hf_83", "hf_88", "hf_91", "hf_96"}
SetupPositions == {"setup_23", "setup_28", "setup_30", "setup_32"}

IsPrefix(a, b) == Len(a) <= Len(b) /\ a = SubSeq(b, 1, Len(a))

Called(f) == \E i \in 1..Len(calls) : calls[i] = f

AllCalls == <<"setup", "kaggle", "huggingface">>

\* C1: host A: a step of an item that raises (folder creation, authenticate,
\* download) is caught and a diagnostic naming that identifier is printed;
\* the identifiers are attempted in list order, each once; whatever subset
\* fails, the loop goes through the whole list and the function returns.
C1_KaggleFailureIsolated ==
  /\ kAttempted = SubSeq(dataset_urls, 1, ki)
  /\ kDiag \subseteq kFailed
  /\ kFailed \ kDiag \subseteq (IF pc = "kaggle_67" THEN {dataset_urls[ki]} ELSE {})
  /\ kFailed \subseteq { kAttempted[i] : i \in 1..Len(kAttempted) }
  /\ (Called("huggingface") => kAttempted = dataset_urls)
  /\ (pc = "crashed" => excAt \notin KagglePositions)

\* C1 witness: the first two identifiers failed and were reported, the third
\* was downloaded, and the run completed.
C1_Witness ==
  /\ pc = "done"
  /\ kFailed = {dataset_urls[1], dataset_urls[2]}
  /\ kDiag = kFailed
  /\ kAttempted = dataset_urls
  /\ kSteps = << <<"mkdir", "ok">>, <<"authenticate", "ok">>, <<"download", "ok">> >>

\* C2: host B: any failure while processing one identifier (creating its
\* folder, loading it, exporting a partition) is caught and reported with a
\* diagnostic naming the identifier, and the later identifiers are still
\* attempted; a failure in one item never aborts the run.
C2_HfFailureIsolated ==
  /\ hDiag \subseteq hFailed
  /\ hFailed \ hDiag \subseteq (IF pc = "hf_96" THEN {dataset_ids[hi]} ELSE {})
  /\ (pc \in {"main_111", "done"} => hAttempted = dataset_ids)
  /\ (pc = "crashed" => excAt \notin HfPositions)

\* C3: when line 23 finds no file at the expected path and there is no
\* bundled fallback, the run ends with the missing-configuration error with
\* no authenticate, download or load_dataset call made, no identifier of
\* either host attempted and no datasets/kaggle/<name> folder created.
C3_MissingCredentialHaltsFirst ==
  (preCred = NoFile /\ local = NoFile) =>
    /\ pc = "crashed" /\ exc = "FileNotFoundError"
    /\ authCalls = 0 /\ dlCalls = 0 /\ loadCalls = 0
    /\ kAttempted = <<>> /\ hAttempted = <<>>
    /\ calls = <<"setup">>
    /\ \A d \in dirs : Dirname(d) # PathJoin(DATASETS_DIR, KAGGLE)

\* C3 witness: a second run ended by the missing-configuration error.
C3_Witness ==
  /\ preCred = NoFile /\ local = NoFile
  /\ pc = "crashed" /\ exc = "FileNotFoundError" /\ run = 2

\* C4: a file found at the expected credential path by the provisioner is
\* left as it was, contents and permission bits, and no copy is made,
\* whether or not the bundled fallback exists.
C4_ExistingCredentialUntouched ==
  (preCred # Unset /\ preCred # NoFile) => (cred = preCred /\ copyCount = 0)

\* C4 witness: a run found a user's file with the fallback also present and
\* completed.
C4_Witness ==
  /\ preCred \in UserFiles /\ local \in FallbackFiles
  /\ pc = "done" /\ cred \in UserFiles

\* The credential file a completed provisioning leaves.
Provisioned == [content |-> local.content, mode |-> OwnerOnly]

C6_AllStagesEveryRun ==
  /\ (Finished /\ calls # <<>>) => calls = AllCalls
  /\ hAttempted # <<>> => kAttempted = dataset_urls

\* C6 amended: provisioning, the host-A batch and the host-B batch are
\* entered at most once each and in that order; no host-B identifier is
\* attempted before all host-A identifiers were; both batches run in every
\* invocation whose provisioning returns, and neither runs when
\* provisioning raises.
C6_StagesInOrder ==
  /\ IsPrefix(calls, AllCalls)
  /\ hAttempted # <<>> => (kAttempted = dataset_urls /\ calls = AllCalls)
  /\ kAttempted # <<>> => Len(calls) >= 2
  /\ (Finished /\ calls # <<>>) =>
       IF pc = "crashed" /\ excAt \in SetupPositions
       THEN calls = <<"setup">> /\ kAttempted = <<>> /\ hAttempted = <<>>
       ELSE calls = AllCalls /\ kAttempted = dataset_urls

\* C6 witness: a run completed with all three stages entered and every
\* identifier of both lists attempted.
C6_Witness ==
  /\ pc = "done" /\ calls = AllCalls
  /\ kAttempted = dataset_urls /\ hAttempted = dataset_ids

\* C7 as stated: host A authenticates once per run, before the loop: one
\* call has been made when the first identifier is taken up and no more are
\* made, however long the list.
C7_AuthenticateOncePerRun ==
  /\ ki >= 1 => authCalls = 1
  /\ Called("huggingface") => authCalls = 1

\* C7 amended: authenticate is called inside the loop, at most once per
\* identifier taken up and never before the first; every download follows
\* an authenticate of the same iteration; in a run where no host-A item
\* fails it is called once per identifier.
C7_AuthenticatePerItem ==
  /\ authCalls <= ki
  /\ dlCalls <= authCalls
  /\ (pc \in {"kaggle_59", "kaggle_48"} /\ ki >= 1 /\ kFailed = {}) =>
       authCalls = ki
  /\ (Called("huggingface") /\ kFailed = {}) => authCalls = Len(dataset_urls)

\* C7 witness: a run completed with no host-A failure and one authenticate
\* call per identifier.
C7_Witness ==
  /\ pc = "done" /\ kFailed = {}
  /\ authCalls = Len(dataset_urls) /\ authCalls > 1

\* The files line 92 names for the splits of the loaded dataset.
SplitFiles ==
  { OutputFile(HfSubdir(dataset_ids[hi]), dataset[k]) : k \in 1..Len(dataset) }

\* All exports of the current host-B item have returned.
HfItemExported == pc = "hf_91" /\ si = Len(dataset)

\* C8 as stated: after a host-B item whose exports all succeeded, its
\* destination folder holds exactly one file per partition, <p>.csv, and no
\* others.
C8_ExactlyPartitionFiles ==
  HfItemExported => FilesIn(HfSubdir(dataset_ids[hi])) = SplitFiles

\* C8 amended: after such an item the folder holds one file <p>.csv per
\* partition together with the files it held before the item, and nothing
\* else; exactly the partition files when the folder was empty or new.
C8_PartitionFilesAdded ==
  HfItemExported =>
    /\ FilesIn(HfSubdir(dataset_ids[hi])) = hBefore \cup SplitFiles
    /\ Cardinality(SplitFiles) = Len(dataset)
    /\ HfSubdir(dataset_ids[hi]) \in dirs
    /\ hBefore = {} => FilesIn(HfSubdir(dataset_ids[hi])) = SplitFiles

\* C8 witness: partitions train and test exported into a folder that was
\* empty: exactly train.csv and test.csv.
C8_Witness ==
  /\ HfItemExported /\ dataset = <<TRAIN, TEST>> /\ hBefore = {}
  /\ Cardinality(FilesIn(HfSubdir(dataset_ids[hi]))) = 2

\* C9: a run with a credential file at the expected location or as the
\* bundled fallback reaches the completion line whatever operation fails;
\* the missing-credential error is the only abnormal end.
C9_OnlyMissingCredentialIsFatal ==
  pc = "crashed" => (exc = "FileNotFoundError" /\ cred = NoFile /\ local = NoFile)

\* The outcomes recorded for the calls of the current host-A iteration.
StepNames == [ i \in 1..Len(kSteps) |-> kSteps[i][1] ]

\* C10: within one host-A item the calls are folder creation, authenticate,
\* download, in that order, each made only if the one before returned: a
\* download is requested only with the folder in place and authenticate
\* returned in the same iteration, whatever happened to earlier items.
C10_KaggleStepOrder ==
  /\ IsPrefix(StepNames, <<"mkdir", "authenticate", "download">>)
  /\ \A i \in 1..Len(kSteps) - 1 : kSteps[i][2] = "ok"
  /\ (Len(kSteps) >= 1 /\ kSteps[1][2] = "ok") => KaggleSubdir(parts) \in dirs
  /\ pc = "kaggle_58" => kSteps = << <<"mkdir", "ok">> >>
  /\ pc = "kaggle_59" => kSteps = << <<"mkdir", "ok">>, <<"authenticate", "ok">> >>
  /\ pc = "kaggle_67" => (kSteps = <<>> \/ kSteps[Len(kSteps)][2] = "raised")

\* C10 witness: the first item failed at authenticate; the second item,
\* with its folder made and its own authenticate returned, is about to
\* request its download.
C10_Witness ==
  /\ pc = "kaggle_59" /\ ki = 2
  /\ kFailed = {dataset_urls[1]} /\ authCalls = 2 /\ dlCalls = 0
  /\ KaggleSubdir(parts) \in dirs /\ KaggleSubdir(Split(dataset_urls[1], SEP)) \in dirs

====
